---------------------------- MODULE Spec2Model ----------------------------
(***************************************************************************)
(* Shamir secret sharing dealer of paperback-core                          *)
(* (pkg/paperback-core/src/shamir/dealer.rs).                              *)
(*                                                                         *)
(* The dealer splits a secret into 4-byte chunks, hides each chunk as the  *)
(* constant term of a random polynomial of degree threshold-1 over a       *)
(* binary field, and hands out shards: the value of every polynomial at    *)
(* one random non-zero x.  recover_secret and Dealer::recover interpolate  *)
(* a set of shards back into the secret or into a dealer.                  *)
(*                                                                         *)
(* The field arithmetic, the polynomials and the two interpolations live   *)
(* in shamir/gf.rs, which dealer.rs only calls; they are modelled here     *)
(* from their documented contract.  The field is scaled from GF(2^32) to   *)
(* GF(2^4): a field element is still CHUNK bytes, a byte carries one bit.  *)
(***************************************************************************)
EXTENDS Integers, Sequences, FiniteSets, TLC

(***************************************************************************)
(* Bounds of the model.                                                    *)
(***************************************************************************)
\* largest threshold handed to Dealer::new
MaxThreshold == 3
\* longest secret handed to Dealer::new, in bytes
MaxSecretLen == 5
\* the random source draws field elements 0..MaxRand
MaxRand == 3
\* largest Dealer::new call: the bytes of its secret times the degree of its
\* polynomials
MaxSize == 5
\* longest shard slice of the free-standing recover calls (SpecArb)
MaxArbLen == 3

\* most times one next_shard call draws ZERO before it draws its x
MaxRedraws == 1

(***************************************************************************)
(* Field elements (gf.rs, GfElem).                                         *)
(***************************************************************************)
\* mem::size_of::<GfElemPrimitive>(): bytes per field element
CHUNK == 4
\* the values of one byte (scaled: one bit per byte)
Byte == {0, 1}
Radix == Cardinality(Byte)
\* number of field elements: Radix^CHUNK
Order == Radix * Radix * Radix * Radix
GF == 0 .. (Order - 1)
ZERO == 0
ONE == 1
\* x^4 + x + 1, irreducible over GF(2)
ReducePoly == 19

RECURSIVE Xor(_, _)
Xor(a, b) ==
    IF a = 0 THEN b
    ELSE IF b = 0 THEN a
    ELSE (((a % 2) + (b % 2)) % 2) + 2 * Xor(a \div 2, b \div 2)

Xtime(a) == IF 2 * a >= Order THEN Xor(2 * a, ReducePoly) ELSE 2 * a

RECURSIVE ClMul(_, _)
ClMul(a, b) ==
    IF b = 0 THEN 0
    ELSE Xor(IF (b % 2) = 1 THEN a ELSE 0, ClMul(Xtime(a), b \div 2))

AddTable == [a \in GF |-> [b \in GF |-> Xor(a, b)]]
MulTable == [a \in GF |-> [b \in GF |-> ClMul(a, b)]]
InvTable == [a \in GF \ {ZERO} |-> CHOOSE b \in GF : MulTable[a][b] = ONE]

gf_add(a, b) == AddTable[a][b]
gf_mul(a, b) == MulTable[a][b]
gf_inv(a) == InvTable[a]
gf_div(a, b) == gf_mul(a, gf_inv(b))

RECURSIVE GfSum(_)
GfSum(s) == IF s = <<>> THEN ZERO ELSE gf_add(Head(s), GfSum(Tail(s)))

RECURSIVE GfProd(_)
GfProd(s) == IF s = <<>> THEN ONE ELSE gf_mul(Head(s), GfProd(Tail(s)))

\* GfElem::from_bytes: little-endian, a short chunk is padded with zero bytes
RECURSIVE from_bytes(_)
from_bytes(bs) ==
    IF bs = <<>> THEN ZERO ELSE Head(bs) + Radix * from_bytes(Tail(bs))

RECURSIVE ToBytesN(_, _)
ToBytesN(e, n) ==
    IF n = 0 THEN <<>> ELSE <<(e % Radix)>> \o ToBytesN(e \div Radix, n - 1)

\* GfElem::to_bytes: always CHUNK bytes
to_bytes(e) == ToBytesN(e, CHUNK)

(***************************************************************************)
(* Polynomials (gf.rs, EvaluablePolynomial).                               *)
(***************************************************************************)
\* GfPolynomial::new_rand(k, rng) followed by *poly.constant_mut() = x0:
\* coefficient 0 is the chunk, coefficients 1..k are the drawn elements
GfPolynomial(x0, rand) == [kind |-> "GfPolynomial", coeffs |-> <<x0>> \o rand]

RECURSIVE Horner(_, _, _)
Horner(coeffs, i, x) ==
    IF i > Len(coeffs) THEN ZERO
    ELSE gf_add(coeffs[i], gf_mul(x, Horner(coeffs, i + 1, x)))

HasDuplicateX(points) ==
    \E i, j \in 1 .. Len(points) : i # j /\ points[i][1] = points[j][1]

\* gf::lagrange_constant(k, points): the value at x = 0 of the polynomial of
\* degree k through the points
lagrange_constant(k, points) ==
    LET n == Len(points)
        basis(i) == GfProd([j \in 1 .. n |->
                        IF j = i THEN ONE
                        ELSE gf_div(points[j][1],
                                    gf_add(points[i][1], points[j][1]))])
    IN  IF n # k + 1 \/ HasDuplicateX(points)
        THEN [ok |-> FALSE, val |-> "InterpolationFailure"]
        ELSE [ok |-> TRUE,
              val |-> GfSum([i \in 1 .. n |-> gf_mul(points[i][2], basis(i))])]

\* GfBarycentric::recover(k, points): the weights w_i = 1 / prod (x_i - x_j)
GfBarycentric_recover(k, points) ==
    LET n == Len(points)
        weight(i) == gf_inv(GfProd([j \in 1 .. n |->
                        IF j = i THEN ONE
                        ELSE gf_add(points[i][1], points[j][1])]))
    IN  IF n # k + 1 \/ HasDuplicateX(points)
        THEN [ok |-> FALSE, val |-> "InterpolationFailure"]
        ELSE [ok |-> TRUE,
              val |-> [kind |-> "GfBarycentric",
                       xs |-> [i \in 1 .. n |-> points[i][1]],
                       ys |-> [i \in 1 .. n |-> points[i][2]],
                       ws |-> [i \in 1 .. n |-> weight(i)]]]

\* GfBarycentric::evaluate: y_i at a sample x_i, else the barycentric quotient
BaryEvaluate(p, x) ==
    LET n == Len(p.xs)
        term(i) == gf_div(p.ws[i], gf_add(x, p.xs[i]))
    IN  IF \E i \in 1 .. n : p.xs[i] = x
        THEN p.ys[CHOOSE i \in 1 .. n : p.xs[i] = x]
        ELSE gf_div(GfSum([i \in 1 .. n |-> gf_mul(term(i), p.ys[i])]),
                    GfSum([i \in 1 .. n |-> term(i)]))

\* EvaluablePolynomial::evaluate
evaluate(p, x) ==
    IF p.kind = "GfPolynomial" THEN Horner(p.coeffs, 1, x) ELSE BaryEvaluate(p, x)

\* EvaluablePolynomial::constant
constant(p) ==
    IF p.kind = "GfPolynomial" THEN p.coeffs[1] ELSE BaryEvaluate(p, ZERO)

(***************************************************************************)
(* Helpers for Rust's iterator adaptors.                                   *)
(***************************************************************************)
Min(a, b) == IF a < b THEN a ELSE b

\* slice.chunks(n)
RECURSIVE chunks(_, _)
chunks(s, n) ==
    IF s = <<>> THEN <<>>
    ELSE <<SubSeq(s, 1, Min(n, Len(s)))>> \o chunks(SubSeq(s, n + 1, Len(s)), n)

\* iter.flat_map(|x| x.to_bytes())
RECURSIVE flat_to_bytes(_)
flat_to_bytes(es) ==
    IF es = <<>> THEN <<>> ELSE to_bytes(Head(es)) \o flat_to_bytes(Tail(es))

\* iter.take(n)
take(s, n) == SubSeq(s, 1, Min(n, Len(s)))

\* mutant of collect_result: the errors are dropped and the rest is kept
collect_result_skip_errors(rs) ==
    LET oks == SelectSeq(rs, LAMBDA r : r.ok)
    IN  [ok |-> TRUE, val |-> [i \in 1 .. Len(oks) |-> oks[i].val],
         calls |-> Len(rs)]

\* iter.collect::<Result<Vec<_>, _>>(): the first error, else all the values;
\* calls counts the closures run before collect stopped
RECURSIVE FirstErr(_, _)
FirstErr(rs, i) ==
    IF i > Len(rs) THEN 0 ELSE IF ~rs[i].ok THEN i ELSE FirstErr(rs, i + 1)

collect_result(rs) ==
    LET e == FirstErr(rs, 1)
    IN  IF e # 0
        THEN [ok |-> FALSE, val |-> rs[e].val, calls |-> e]
        ELSE [ok |-> TRUE, val |-> [i \in 1 .. Len(rs) |-> rs[i].val],
              calls |-> Len(rs)]

(***************************************************************************)
(* What a call gives back: Ok(val), Err(val), Some(val), None, or a panic  *)
(* with its message.  calls counts the interpolations the call ran.        *)
(***************************************************************************)
Ok(v, n) == [kind |-> "Ok", val |-> v, calls |-> n]
Err(v, n) == [kind |-> "Err", val |-> v, calls |-> n]
Some(v) == [kind |-> "Some", val |-> v, calls |-> 0]
None == [kind |-> "None", val |-> "", calls |-> 0]
Panic(msg) == [kind |-> "Panic", val |-> msg, calls |-> 0]

(***************************************************************************)
(* Dealer (dealer.rs).                                                     *)
(***************************************************************************)
\* Dealer::new(threshold, secret); rand[i] are the threshold-1 coefficients
\* GfPolynomial::new_rand draws for chunk i
Dealer_new(threshold, secret_bytes, rand) ==
    IF ~(threshold > 0)
    THEN Panic("must at least have a threshold of one")
    ELSE LET cs == chunks(secret_bytes, CHUNK)
         IN  Ok([polys |-> [i \in 1 .. Len(cs) |->
                               GfPolynomial(from_bytes(cs[i]), rand[i])],
                 threshold |-> threshold,
                 secret_len |-> Len(secret_bytes)], 0)

\* mutant of Dealer_secret: the padding of the last chunk is not cut off
Dealer_secret_untruncated(d) ==
    flat_to_bytes([i \in 1 .. Len(d.polys) |-> constant(d.polys[i])])

\* Dealer::secret
Dealer_secret(d) ==
    take(flat_to_bytes([i \in 1 .. Len(d.polys) |-> constant(d.polys[i])]),
         d.secret_len)

\* mutant of Dealer_shard: the shard carries the padded length
Dealer_shard_padded_len(d, x) ==
    IF x = ZERO THEN None
    ELSE LET ys == [i \in 1 .. Len(d.polys) |-> evaluate(d.polys[i], x)]
         IN  IF \E i \in 1 .. Len(d.polys) :
                    ~(d.threshold = 1 \/ ys[i] # constant(d.polys[i]))
             THEN Panic("assertion failed: self.threshold == 1 || y != poly.constant()")
             ELSE Some([x |-> x, ys |-> ys, threshold |-> d.threshold,
                        secret_len |-> CHUNK * Len(d.polys)])

\* Dealer::shard(x)
Dealer_shard(d, x) ==
    IF x = ZERO THEN None
    ELSE LET ys == [i \in 1 .. Len(d.polys) |-> evaluate(d.polys[i], x)]
         IN  IF \E i \in 1 .. Len(d.polys) :
                    ~(d.threshold = 1 \/ ys[i] # constant(d.polys[i]))
             THEN Panic("assertion failed: self.threshold == 1 || y != poly.constant()")
             ELSE Some([x |-> x, ys |-> ys, threshold |-> d.threshold,
                        secret_len |-> d.secret_len])

\* mutant of DrawLoop: the first element drawn is taken, ZERO or not
DrawLoop_once(x, draws) == Head(draws)

\* the loop of Dealer::next_shard: x starts as ZERO and is redrawn while it
\* is ZERO; draws are the elements the random source hands out, in order
RECURSIVE DrawLoop(_, _)
DrawLoop(x, draws) ==
    IF x = ZERO /\ draws # <<>> THEN DrawLoop(Head(draws), Tail(draws)) ELSE x

\* Dealer::next_shard, from the x its loop ends with:
\* self.shard(x).expect("non x=0 shard should've been created")
Dealer_next_shard(d, x) ==
    LET r == Dealer_shard(d, x)
    IN  CASE r.kind = "None" -> Panic("non x=0 shard should've been created")
          [] r.kind = "Panic" -> r
          [] OTHER -> Ok(r.val, 0)

\* mutant of FirstInconsistent: secret_len is not compared
RECURSIVE FirstInconsistent_no_secret_len(_, _)
FirstInconsistent_no_secret_len(shards_in, i) ==
    IF i > Len(shards_in) THEN 0
    ELSE IF \/ shards_in[i].threshold # shards_in[1].threshold
            \/ Len(shards_in[i].ys) # Len(shards_in[1].ys)
         THEN i
         ELSE FirstInconsistent_no_secret_len(shards_in, i + 1)

\* the consistency loop opening Dealer::recover and recover_secret: the index
\* of the first shard that differs from shards[0], 0 when none does
RECURSIVE FirstInconsistent(_, _)
FirstInconsistent(shards_in, i) ==
    IF i > Len(shards_in) THEN 0
    ELSE IF \/ shards_in[i].threshold # shards_in[1].threshold
            \/ Len(shards_in[i].ys) # Len(shards_in[1].ys)
            \/ shards_in[i].secret_len # shards_in[1].secret_len
         THEN i
         ELSE FirstInconsistent(shards_in, i + 1)

\* mutant of EntryPanic: more shards than the threshold are let through
EntryPanic_at_least(shards_in) ==
    IF shards_in = <<>> THEN "must be provided at least one shard"
    ELSE IF FirstInconsistent(shards_in, 1) # 0 THEN "shards must be consistent"
    ELSE IF Len(shards_in) < shards_in[1].threshold THEN "must have exactly threshold shards"
    ELSE ""

\* the assertions opening Dealer::recover and recover_secret, in their order:
\* the message of the first that fails, "" when all pass
EntryPanic(shards_in) ==
    IF shards_in = <<>> THEN "must be provided at least one shard"
    ELSE IF FirstInconsistent(shards_in, 1) # 0 THEN "shards must be consistent"
    ELSE IF Len(shards_in) # shards_in[1].threshold THEN "must have exactly threshold shards"
    ELSE ""

\* the points of polynomial i: xs.zip(ys)
Points(shards_in, i) ==
    [s \in 1 .. Len(shards_in) |-> <<shards_in[s].x, shards_in[s].ys[i]>>]

\* Dealer::recover
Dealer_recover(shards_in) ==
    IF EntryPanic(shards_in) # "" THEN Panic(EntryPanic(shards_in))
    ELSE LET threshold == shards_in[1].threshold
             polys_len == Len(shards_in[1].ys)
             secret_len == shards_in[1].secret_len
             polys == collect_result([i \in 1 .. polys_len |->
                          GfBarycentric_recover(threshold - 1, Points(shards_in, i))])
         IN  IF ~polys.ok THEN Err(polys.val, polys.calls)
             ELSE Ok([polys |-> polys.val, threshold |-> threshold,
                      secret_len |-> secret_len], polys.calls)

\* mutant of recover_secret: the degree handed on is threshold, not threshold-1
recover_secret_wrong_degree(shards_in) ==
    IF EntryPanic(shards_in) # "" THEN Panic(EntryPanic(shards_in))
    ELSE LET threshold == shards_in[1].threshold
             polys_len == Len(shards_in[1].ys)
             secret_len == shards_in[1].secret_len
             consts == collect_result([i \in 1 .. polys_len |->
                           lagrange_constant(threshold, Points(shards_in, i))])
         IN  IF ~consts.ok THEN Err(consts.val, consts.calls)
             ELSE Ok(take(flat_to_bytes(consts.val), secret_len), consts.calls)

\* mutant of recover_secret: the padding of the last chunk is not cut off
recover_secret_untruncated(shards_in) ==
    IF EntryPanic(shards_in) # "" THEN Panic(EntryPanic(shards_in))
    ELSE LET threshold == shards_in[1].threshold
             polys_len == Len(shards_in[1].ys)
             consts == collect_result([i \in 1 .. polys_len |->
                           lagrange_constant(threshold - 1, Points(shards_in, i))])
         IN  IF ~consts.ok THEN Err(consts.val, consts.calls)
             ELSE Ok(flat_to_bytes(consts.val), consts.calls)

\* recover_secret
recover_secret(shards_in) ==
    IF EntryPanic(shards_in) # "" THEN Panic(EntryPanic(shards_in))
    ELSE LET threshold == shards_in[1].threshold
             polys_len == Len(shards_in[1].ys)
             secret_len == shards_in[1].secret_len
             consts == collect_result([i \in 1 .. polys_len |->
                           lagrange_constant(threshold - 1, Points(shards_in, i))])
         IN  IF ~consts.ok THEN Err(consts.val, consts.calls)
             ELSE Ok(take(flat_to_bytes(consts.val), secret_len), consts.calls)

\* shard.threshold -= 1 on every shard of the slice (test::recover_secret_fail)
DecThreshold(shards_in) ==
    [i \in 1 .. Len(shards_in) |->
        [shards_in[i] EXCEPT !.threshold = shards_in[i].threshold - 1]]

(***************************************************************************)
(* State.                                                                  *)
(***************************************************************************)
VARIABLES
    secret,     \* the bytes handed to Dealer::new
    dealer,     \* the dealer Dealer::new built, NoDealer before
    shards,     \* the shards the caller holds, in the order it got them
    recovered,  \* the dealer Dealer::recover built, NoDealer before
    out         \* the last call: its name, receiver, argument and result

vars == <<secret, dealer, shards, recovered, out>>

NoDealer == [polys |-> <<>>, threshold |-> 0, secret_len |-> 0]
\* op: the function called; by: the dealer it was called on; dec: whether the
\* thresholds of the slice were decremented first; n: the length of the slice
NoCall == [op |-> "", by |-> "", dec |-> FALSE, n |-> 0, res |-> None]
Call(op, by, dec, n, res) == [op |-> op, by |-> by, dec |-> dec, n |-> n, res |-> res]

\* what the random source can draw
Rand == 0 .. MaxRand
Secrets == UNION {[1 .. n -> Byte] : n \in 0 .. MaxSecretLen}
\* the elements one next_shard call takes from the random source: ZERO some
\* times, then the first non-zero one
DrawSeqs ==
    { [i \in 1 .. n + 1 |-> IF i <= n THEN ZERO ELSE x] :
        n \in 0 .. MaxRedraws, x \in Rand \ {ZERO} }
\* the x the loop of next_shard can end with
LoopEnds == {DrawLoop(ZERO, draws) : draws \in DrawSeqs}

\* a panic ends the program
Panicked == out.res.kind = "Panic"

Init ==
    /\ secret \in Secrets
    /\ dealer = NoDealer
    /\ shards = <<>>
    /\ recovered = NoDealer
    /\ out = NoCall

\* let dealer = Dealer::new(t, &secret)
New(t, rand) ==
    /\ ~Panicked
    /\ dealer = NoDealer
    /\ out = NoCall
    /\ LET r == Dealer_new(t, secret, rand)
       IN  /\ out' = Call("new", "", FALSE, 0,
                          IF r.kind = "Ok" THEN Ok("dealer", 0) ELSE r)
           /\ dealer' = IF r.kind = "Ok" THEN r.val ELSE dealer
    /\ UNCHANGED <<secret, shards, recovered>>

\* shards.push(dealer.next_shard()); the caller collects up to threshold shards
NextShard(x) ==
    /\ ~Panicked
    /\ dealer # NoDealer
    /\ recovered = NoDealer
    /\ Len(shards) < dealer.threshold
    /\ LET r == Dealer_next_shard(dealer, x)
       IN  /\ out' = Call("next_shard", "dealer", FALSE, 0, r)
           /\ shards' = IF r.kind = "Ok" THEN Append(shards, r.val) ELSE shards
    /\ UNCHANGED <<secret, dealer, recovered>>

\* recovered.next_shard()
NextShardRecovered(x) ==
    /\ ~Panicked
    /\ recovered # NoDealer
    /\ out' = Call("next_shard", "recovered", FALSE, 0,
                   Dealer_next_shard(recovered, x))
    /\ UNCHANGED <<secret, dealer, shards, recovered>>

\* dealer.secret()
Secret ==
    /\ ~Panicked
    /\ dealer # NoDealer
    /\ recovered = NoDealer
    /\ out' = Call("secret", "dealer", FALSE, 0, Ok(Dealer_secret(dealer), 0))
    /\ UNCHANGED <<secret, dealer, shards, recovered>>

\* recovered.secret()
SecretRecovered ==
    /\ ~Panicked
    /\ recovered # NoDealer
    /\ out' = Call("secret", "recovered", FALSE, 0, Ok(Dealer_secret(recovered), 0))
    /\ UNCHANGED <<secret, dealer, shards, recovered>>

\* the slice a recover call is handed: the caller's shards, with every
\* threshold decremented first when dec
Handed(dec) == IF dec THEN DecThreshold(shards) ELSE shards

\* recover_secret(shards): the call takes the caller's Vec of shards by value
RecoverSecret(dec) ==
    /\ ~Panicked
    /\ recovered = NoDealer
    /\ dec => shards # <<>>
    /\ out' = Call("recover_secret", "", dec, Len(shards), recover_secret(Handed(dec)))
    /\ shards' = <<>>
    /\ UNCHANGED <<secret, dealer, recovered>>

\* Dealer::recover(shards): the call takes the caller's Vec of shards by value
Recover(dec) ==
    /\ ~Panicked
    /\ recovered = NoDealer
    /\ dec => shards # <<>>
    /\ LET r == Dealer_recover(Handed(dec))
       IN  /\ out' = Call("recover", "", dec, Len(shards),
                          IF r.kind = "Ok" THEN Ok("dealer", r.calls) ELSE r)
           /\ recovered' = IF r.kind = "Ok" THEN r.val ELSE recovered
    /\ shards' = <<>>
    /\ UNCHANGED <<secret, dealer>>

\* the coefficient draws of one Dealer::new(t, secret)
RandFor(t) ==
    LET n == Len(chunks(secret, CHUNK))
        k == IF t > 0 THEN t - 1 ELSE 0
    IN  [1 .. n -> [1 .. k -> Rand]]

NewAny ==
    \E t \in 0 .. MaxThreshold :
        /\ (t - 1) * Len(secret) <= MaxSize
        /\ \E rand \in RandFor(t) : New(t, rand)

NextShardAny == \E x \in LoopEnds : NextShard(x)
NextShardRecoveredAny == \E x \in LoopEnds : NextShardRecovered(x)
RecoverSecretAny == \E dec \in BOOLEAN : RecoverSecret(dec)
RecoverAny == \E dec \in BOOLEAN : Recover(dec)

Next ==
    \/ NewAny
    \/ NextShardAny
    \/ NextShardRecoveredAny
    \/ Secret
    \/ SecretRecovered
    \/ RecoverSecretAny
    \/ RecoverAny

Spec == Init /\ [][Next]_vars

(***************************************************************************)
(* The recover calls on arbitrary shard slices: the shards of several      *)
(* dealers, mixed.                                                         *)
(***************************************************************************)
\* the y values and secret_len a shard can carry together
ArbBodies ==
    { <<(<<>>), 0>>, <<(<<1>>), 3>>, <<(<<3>>), 3>>, <<(<<1>>), 4>>,
      <<(<<1, 3>>), 5>>, <<(<<3, 3>>), 5>> }

ArbShards ==
    { [x |-> x, ys |-> b[1], threshold |-> t, secret_len |-> b[2]] :
        x \in {1, 2}, t \in {1, 2}, b \in ArbBodies }

ArbSlices == UNION {[1 .. n -> ArbShards] : n \in 0 .. MaxArbLen}

InitArb ==
    /\ secret = <<>>
    /\ dealer = NoDealer
    /\ shards \in ArbSlices
    /\ recovered = NoDealer
    /\ out = NoCall

NextArb ==
    \/ RecoverSecretAny
    \/ RecoverAny

SpecArb == InitArb /\ [][NextArb]_vars

(***************************************************************************)
(* Properties.                                                             *)
(***************************************************************************)
DistinctX(shards_in) ==
    \A i, j \in 1 .. Len(shards_in) : i # j => shards_in[i].x # shards_in[j].x

Consistent(shards_in) ==
    \A i \in 1 .. Len(shards_in) :
        /\ shards_in[i].threshold = shards_in[1].threshold
        /\ Len(shards_in[i].ys) = Len(shards_in[1].ys)
        /\ shards_in[i].secret_len = shards_in[1].secret_len

CeilDiv(a, b) == (a + b - 1) \div b

\* this step is a call of Dealer::recover or recover_secret
RecoverStep == out'.op \in {"recover", "recover_secret"}

\* the slice this step's recover call is handed
StepHanded == Handed(out'.dec)

SufficiencyStep ==
    /\ out'.op = "recover_secret"
    /\ ~out'.dec
    /\ dealer # NoDealer
    /\ Len(shards) = dealer.threshold
    /\ DistinctX(shards)

\* C1 (threshold sufficiency): recover_secret, handed exactly threshold shards
\* of pairwise distinct x that the dealer of secret s minted, returns Ok(s):
\* the same bytes and the same length, for every threshold and every secret,
\* the empty one and those whose length is no multiple of 4 included.
ThresholdSufficiency ==
    [][SufficiencyStep =>
          /\ out'.res.kind = "Ok"
          /\ out'.res.val = secret
          /\ Len(out'.res.val) = Len(secret)]_vars

ThresholdSufficiencyWitness ==
    /\ out.op = "recover_secret"
    /\ ~out.dec
    /\ dealer.threshold >= 2
    /\ out.n = dealer.threshold
    /\ Len(secret) > CHUNK
    /\ Len(secret) % CHUNK # 0
    /\ secret[Len(secret)] # 0
    /\ out.res.kind = "Ok"
    /\ out.res.val = secret

\* C2 (round trip): Dealer::new(t, s).secret() is s for every threshold and
\* every byte sequence; the zero bytes padding the last chunk are cut off.
RoundTrip ==
    (out.op = "secret" /\ out.by = "dealer")
    => (out.res.kind = "Ok" /\ out.res.val = secret)

RoundTripWitness ==
    /\ out.op = "secret"
    /\ out.by = "dealer"
    /\ dealer.threshold > 1
    /\ Len(secret) % CHUNK # 0
    /\ Len(secret) > CHUNK
    /\ secret[Len(secret)] # 0
    /\ Len(flat_to_bytes([i \in 1 .. Len(dealer.polys) |->
                             constant(dealer.polys[i])])) > Len(secret)

\* every polynomial of the dealer has a non-zero leading coefficient
FullDegree(d) ==
    d.threshold > 1 =>
        \A i \in 1 .. Len(d.polys) : d.polys[i].coeffs[d.threshold] # ZERO

\* C3 (recovered-dealer equivalence): for a dealer D2 recovered from threshold
\* shards of D1 (threshold >= 2), D1.shard(x) and D2.shard(x) agree at every
\* field element x: None at ZERO, and at every other x a shard with the same
\* x, ys, threshold and secret_len.  Stated for the dealers whose polynomials
\* have their full degree, which every random source draws.
RecoveredDealerEquivalence ==
    (/\ dealer # NoDealer
     /\ FullDegree(dealer)
     /\ recovered # NoDealer
     /\ dealer.threshold >= 2
     /\ recovered.threshold = dealer.threshold)
    => \A x \in GF :
          /\ Dealer_shard(dealer, x) = Dealer_shard(recovered, x)
          /\ x = ZERO => Dealer_shard(dealer, x) = None
          /\ x # ZERO => Dealer_shard(dealer, x).kind = "Some"

\* C4: Dealer::next_shard never fails: on every dealer, for every x and every
\* choice of coefficients, it returns a shard.  Stated for the dealers whose
\* polynomials have their full degree, which every random source draws.
NextShardNeverFails ==
    (out.op = "next_shard" /\ out.by = "dealer" /\ FullDegree(dealer))
    => out.res.kind = "Ok"

\* C5 (no leak at construction): no shard next_shard returns has x = ZERO; a
\* drawn ZERO is drawn again and never evaluated, so the expect on shard(x)
\* never fires; and shard(ZERO) is None.
NonZeroX ==
    /\ \A i \in 1 .. Len(shards) : shards[i].x # ZERO
    /\ (out.op = "next_shard" /\ out.res.kind = "Ok") => out.res.val.x # ZERO
    /\ out.op = "next_shard" => out.res # Panic("non x=0 shard should've been created")
    /\ dealer # NoDealer => Dealer_shard(dealer, ZERO) = None
    /\ recovered # NoDealer => Dealer_shard(recovered, ZERO) = None

NonZeroXWitness ==
    /\ out.op = "next_shard"
    /\ out.by = "dealer"
    /\ out.res.kind = "Ok"
    /\ Len(shards) = 3
    /\ Len(shards[1].ys) > 0

\* the bytes by which recover_secret on threshold-1 shards of distinct x misses
\* the secret: per polynomial, its leading coefficient times the product of
\* the x
MissBytes ==
    LET xs == [i \in 1 .. Len(shards) |-> shards[i].x]
    IN  take(flat_to_bytes([i \in 1 .. Len(dealer.polys) |->
                gf_mul(dealer.polys[i].coeffs[dealer.threshold], GfProd(xs))]),
             dealer.secret_len)

NecessityStep ==
    /\ out'.op = "recover_secret"
    /\ out'.dec
    /\ dealer # NoDealer
    /\ dealer.threshold >= 2
    /\ secret # <<>>
    /\ Len(shards) = dealer.threshold - 1

WrongShardCount ==
    [][(/\ RecoverStep
        /\ StepHanded # <<>>
        /\ Consistent(StepHanded))
       => /\ (Len(StepHanded) # StepHanded[1].threshold)
               => (/\ out'.res = Panic("must have exactly threshold shards")
                   /\ recovered' = NoDealer)
          /\ out'.res.calls > 0 => Len(StepHanded) = StepHanded[1].threshold
          /\ (Len(StepHanded) = StepHanded[1].threshold)
               => out'.res.kind # "Panic"]_vars

WrongShardCountWitness ==
    /\ out.op = "recover"
    /\ out.n = 3
    /\ out.res = Panic("must have exactly threshold shards")

\* C8 (inconsistent shard sets): whenever some shard of the slice, at any
\* position, differs from the first in threshold, in its number of y values
\* or in secret_len, Dealer::recover and recover_secret fail before any field
\* arithmetic, with no dealer and no secret.
InconsistentRejected ==
    [][(/\ RecoverStep
        /\ StepHanded # <<>>
        /\ ~Consistent(StepHanded))
       => /\ out'.res = Panic("shards must be consistent")
          /\ out'.res.calls = 0
          /\ recovered' = NoDealer]_vars

InconsistentRejectedWitness ==
    /\ out.op = "recover_secret"
    /\ out.n = 3
    /\ out.res = Panic("shards must be consistent")

DuplicateStep ==
    /\ RecoverStep
    /\ StepHanded # <<>>
    /\ Consistent(StepHanded)
    /\ Len(StepHanded) = StepHanded[1].threshold
    /\ ~DistinctX(StepHanded)

\* C9 as stated (duplicate x): exactly threshold consistent shards of which
\* two have the same x make Dealer::recover and recover_secret return an
\* interpolation error, with no dealer and no secret.
DuplicateXStated ==
    [][DuplicateStep => (out'.res.kind = "Err" /\ recovered' = NoDealer)]_vars

\* C9 as amended: so they do when the shards carry at least one y value; on
\* shards with no y values (the shards of an empty secret) no interpolation
\* runs and the call returns Ok.
DuplicateXAmended ==
    [][DuplicateStep =>
          IF Len(StepHanded[1].ys) > 0
          THEN /\ out'.res = Err("InterpolationFailure", 1)
               /\ recovered' = NoDealer
          ELSE out'.res.kind = "Ok" /\ out'.res.calls = 0]_vars

DuplicateXWitness ==
    /\ out.op = "recover"
    /\ out.n = 2
    /\ out.res = Err("InterpolationFailure", 1)

\* a shard is the cross-section at its x of the polynomials of d
ShardOf(sh, d) ==
    /\ sh.threshold = d.threshold
    /\ sh.secret_len = d.secret_len
    /\ Len(sh.ys) = Len(d.polys)
    /\ \A i \in 1 .. Len(d.polys) : sh.ys[i] = evaluate(d.polys[i], sh.x)

Structural ==
    /\ dealer # NoDealer =>
          /\ Len(dealer.polys) = CeilDiv(dealer.secret_len, CHUNK)
          /\ \A i \in 1 .. Len(shards) : ShardOf(shards[i], dealer)
          /\ (out.op = "next_shard" /\ out.by = "dealer" /\ out.res.kind = "Ok")
                => out.res.val = shards[Len(shards)]
    /\ recovered # NoDealer =>
          /\ Len(recovered.polys) = CeilDiv(recovered.secret_len, CHUNK)
          /\ (out.op = "next_shard" /\ out.by = "recovered" /\ out.res.kind = "Ok")
                => ShardOf(out.res.val, recovered)

DealersKept ==
    /\ dealer # NoDealer => dealer' = dealer
    /\ recovered # NoDealer => recovered' = recovered

\* C10 (structure): a dealer built by Dealer::new or Dealer::recover keeps its
\* threshold, secret_len and polynomials through every next_shard and secret
\* call; it holds ceil(secret_len / 4) polynomials; and every shard it returns
\* carries its threshold and secret_len and one y per polynomial, ys[i] being
\* polynomial i at the shard's x.
ShardDealerStructure == [](Structural) /\ [][DealersKept]_vars

ShardDealerStructureWitness ==
    /\ out.op = "next_shard"
    /\ out.by = "recovered"
    /\ out.res.kind = "Ok"
    /\ Len(recovered.polys) = 2
    /\ out.res.val.ys[1] # out.res.val.ys[2]

=============================================================================
